---- MODULE Spec2Model ----
(***************************************************************************)
(* A model of Chart.Render (src/chart.go): range resolution, range         *)
(* validation, the bounded layout schedule and the order of draw calls.    *)
(*                                                                         *)
(* float64 values are modelled as records [k, v]:                          *)
(*   k = "fin": the integer v;   k = "max": v * math.MaxFloat64;           *)
(*   k = "inf": v * infinity;    k = "nan": not a number.                  *)
(* Range objects live in a heap (Range is an interface over a pointer), so *)
(* that the aliasing of the caller's explicit Range objects is visible.    *)
(***************************************************************************)
EXTENDS Integers, Sequences, FiniteSets, TLC

VARIABLES c, secondaryAxisType, heap, xr, yr, yra, canvasBox, xt, yt, yta,
          events, steps, rpCalled, pc, err

vars == <<c, secondaryAxisType, heap, xr, yr, yra, canvasBox, xt, yt, yta,
          events, steps, rpCalled, pc, err>>

-----------------------------------------------------------------------------
(* Bounds of the model.                                                    *)

MaxSeries == 2
MaxElements == 1

-----------------------------------------------------------------------------
(* float64 arithmetic as used by chart.go.                                 *)

Fin(n) == [k |-> "fin", v |-> n]
MaxFloat64 == [k |-> "max", v |-> 1]
NegMaxFloat64 == [k |-> "max", v |-> -1]
Inf(s) == [k |-> "inf", v |-> s]
NaN == [k |-> "nan", v |-> 0]

IsNaN(a) == a.k = "nan"
IsInf(a) == a.k = "inf"
IsFin(a) == a.k = "fin"

\* position of a non-NaN value on the extended real line, by class
Rank(a) == CASE a.k = "inf" -> 2 * a.v
             [] a.k = "max" -> a.v
             [] OTHER -> 0

Lt(a, b) == /\ ~IsNaN(a)
            /\ ~IsNaN(b)
            /\ \/ Rank(a) < Rank(b)
               \/ (IsFin(a) /\ IsFin(b) /\ a.v < b.v)

Le(a, b) == /\ ~IsNaN(a)
            /\ ~IsNaN(b)
            /\ ~Lt(b, a)

MathMin(a, b) == IF IsNaN(a) \/ IsNaN(b) THEN NaN
                 ELSE IF Lt(b, a) THEN b ELSE a

MathMax(a, b) == IF IsNaN(a) \/ IsNaN(b) THEN NaN
                 ELSE IF Lt(a, b) THEN b ELSE a

\* a - b in IEEE-754 double precision
FSub(a, b) ==
    CASE IsNaN(a) \/ IsNaN(b) -> NaN
      [] IsFin(a) /\ IsFin(b) -> Fin(a.v - b.v)
      [] IsInf(a) /\ IsInf(b) -> IF a.v = b.v THEN NaN ELSE a
      [] IsInf(a) -> a
      [] IsInf(b) -> Inf(-b.v)
      [] a.k = "max" /\ b.k = "max" -> IF a.v = b.v THEN Fin(0) ELSE Inf(a.v)
      [] a.k = "max" -> a
      [] OTHER -> [k |-> "max", v |-> -b.v]

-----------------------------------------------------------------------------
(* Range objects.                                                          *)

YAxisPrimary == "primary"
YAxisSecondary == "secondary"

NilRef == "nil"
CallerRefs == {"cx", "cy", "cya"}
LocalRefs == {"lx", "ly", "lya"}
Refs == CallerRefs \cup LocalRefs

ContinuousRange == [Min |-> Fin(0), Max |-> Fin(0), Domain |-> 0]

GetDelta(r) == FSub(r.Max, r.Min)
IsZero(r) == r.Min = Fin(0) /\ r.Max = Fin(0)

-----------------------------------------------------------------------------
(* Boxes.                                                                  *)

Box(t, l, r, b) == [Top |-> t, Left |-> l, Right |-> r, Bottom |-> b]
ZeroBox == Box(0, 0, 0, 0)
BoxWidth(b) == b.Right - b.Left
BoxHeight(b) == b.Bottom - b.Top

IntMin(a, b) == IF a < b THEN a ELSE b
IntMax(a, b) == IF a > b THEN a ELSE b

Grow(b, other) == Box(IntMin(b.Top, other.Top), IntMin(b.Left, other.Left),
                      IntMax(b.Right, other.Right), IntMax(b.Bottom, other.Bottom))

OuterConstrain(b, bounds, other) ==
    Box(IF other.Top < bounds.Top THEN b.Top + (bounds.Top - other.Top) ELSE b.Top,
        IF other.Left < bounds.Left THEN b.Left + (bounds.Left - other.Left) ELSE b.Left,
        IF other.Right > bounds.Right THEN b.Right - (other.Right - bounds.Right) ELSE b.Right,
        IF other.Bottom > bounds.Bottom THEN b.Bottom - (other.Bottom - bounds.Bottom) ELSE b.Bottom)

-----------------------------------------------------------------------------
(* The chart configuration.                                                *)

DefaultChartWidth == 1024
DefaultChartHeight == 400
DefaultBackgroundPadding == 5

GetWidth(ch) == IF ch.Width = 0 THEN DefaultChartWidth ELSE ch.Width
GetHeight(ch) == IF ch.Height = 0 THEN DefaultChartHeight ELSE ch.Height

\* Chart.Box: the chart bounds less the background padding
ChartBox(ch) == Box(DefaultBackgroundPadding, DefaultBackgroundPadding,
                    GetWidth(ch) - DefaultBackgroundPadding,
                    GetHeight(ch) - DefaultBackgroundPadding)

getDefaultCanvasBox(ch) == ChartBox(ch)

\* s.GetStyle().IsZero() || s.GetStyle().Show
Shown(s) == s.style = "zero" \/ s.style = "show"

hasAxes(ch) == ch.XAxis.Show \/ ch.YAxis.Show \/ ch.YAxisSecondary.Show

hasAnnotationSeries(ch) ==
    \E i \in 1..Len(ch.Series) :
        ch.Series[i].kind = "annotation" /\ Shown(ch.Series[i])

hasSecondarySeries(ch) ==
    \E i \in 1..Len(ch.Series) : ch.Series[i].yaxis = YAxisSecondary

-----------------------------------------------------------------------------
(* getRanges: the scan of the series.                                      *)

Sentinels == [minx |-> MaxFloat64, maxx |-> NegMaxFloat64,
              miny |-> MaxFloat64, maxy |-> NegMaxFloat64,
              minya |-> MaxFloat64, maxya |-> NegMaxFloat64,
              seriesMappedToSecondaryAxis |-> FALSE]

\* a fold that reads the first bound only
FoldBoundedValueFirstBound(acc, seriesAxis, p) ==
    LET a1 == [acc EXCEPT !.minx = MathMin(@, Fin(p[1])),
                          !.maxx = MathMax(@, Fin(p[1]))]
    IN  IF seriesAxis = YAxisPrimary
        THEN [a1 EXCEPT !.miny = MathMin(@, Fin(p[2])),
                        !.maxy = MathMax(@, Fin(p[2]))]
        ELSE IF seriesAxis = YAxisSecondary
        THEN [a1 EXCEPT !.minya = MathMin(@, Fin(p[2])),
                        !.maxya = MathMax(@, Fin(p[2])),
                        !.seriesMappedToSecondaryAxis = TRUE]
        ELSE a1

\* one GetBoundedValue(index) of a BoundedValueProvider, p = <<vx, vy1, vy2>>
FoldBoundedValue(acc, seriesAxis, p) ==
    LET a1 == [acc EXCEPT !.minx = MathMin(@, Fin(p[1])),
                          !.maxx = MathMax(@, Fin(p[1]))]
    IN  IF seriesAxis = YAxisPrimary
        THEN [a1 EXCEPT !.miny = MathMin(MathMin(@, Fin(p[2])), Fin(p[3])),
                        !.maxy = MathMax(MathMax(@, Fin(p[2])), Fin(p[3]))]
        ELSE IF seriesAxis = YAxisSecondary
        THEN [a1 EXCEPT !.minya = MathMin(MathMin(@, Fin(p[2])), Fin(p[3])),
                        !.maxya = MathMax(MathMax(@, Fin(p[2])), Fin(p[3])),
                        !.seriesMappedToSecondaryAxis = TRUE]
        ELSE a1

\* one GetValue(index) of a ValueProvider, p = <<vx, vy>>
FoldValue(acc, seriesAxis, p) ==
    LET a1 == [acc EXCEPT !.minx = MathMin(@, Fin(p[1])),
                          !.maxx = MathMax(@, Fin(p[1]))]
    IN  IF seriesAxis = YAxisPrimary
        THEN [a1 EXCEPT !.miny = MathMin(@, Fin(p[2])),
                        !.maxy = MathMax(@, Fin(p[2]))]
        ELSE IF seriesAxis = YAxisSecondary
        THEN [a1 EXCEPT !.minya = MathMin(@, Fin(p[2])),
                        !.maxya = MathMax(@, Fin(p[2])),
                        !.seriesMappedToSecondaryAxis = TRUE]
        ELSE a1

RECURSIVE FoldPoints(_, _, _)
FoldPoints(acc, s, index) ==
    IF index > Len(s.pts) THEN acc
    ELSE FoldPoints(IF s.kind = "bounded"
                    THEN FoldBoundedValue(acc, s.yaxis, s.pts[index])
                    ELSE FoldValue(acc, s.yaxis, s.pts[index]),
                    s, index + 1)

\* an annotation series is neither a BoundedValueProvider nor a ValueProvider
FoldOneSeries(acc, s) ==
    IF Shown(s) /\ s.kind \in {"bounded", "value"}
    THEN FoldPoints(acc, s, 1)
    ELSE acc

RECURSIVE FoldSeries(_, _, _)
FoldSeries(acc, series, i) ==
    IF i > Len(series) THEN acc
    ELSE FoldSeries(FoldOneSeries(acc, series[i]), series, i + 1)

\* the min/max loop over an explicit tick list
RECURSIVE TickExtent(_, _, _)
TickExtent(ticks, i, acc) ==
    IF i > Len(ticks) THEN acc
    ELSE TickExtent(ticks, i + 1,
                    [tickMin |-> MathMin(acc.tickMin, Fin(ticks[i])),
                     tickMax |-> MathMax(acc.tickMax, Fin(ticks[i]))])

TickBounds(ticks) ==
    TickExtent(ticks, 1, [tickMin |-> MaxFloat64, tickMax |-> NegMaxFloat64])

-----------------------------------------------------------------------------
(* Nice rounding of an auto-computed Y range.                              *)

\* the granularity for a delta: coarser for larger deltas.  On the integer
\* values of this model every granularity of at most one unit is the
\* identity, so the lookup starts at one unit.
GetRoundToForDelta(delta) ==
    CASE ~IsFin(delta) /\ ~IsNaN(delta) /\ delta.v = 1 -> 100
      [] IsFin(delta) /\ delta.v > 1000 -> 100
      [] IsFin(delta) /\ delta.v > 100 -> 10
      [] OTHER -> 1

RoundDown(value, roundTo) ==
    IF IsFin(value) THEN Fin((value.v \div roundTo) * roundTo) ELSE value

RoundUp(value, roundTo) ==
    IF IsFin(value) THEN Fin(-(((-value.v) \div roundTo) * roundTo)) ELSE value

\* SetMin/SetMax of the folded bounds, then the rounded bounds
AutoRangeY(r, lo, hi) ==
    LET r1 == [r EXCEPT !.Min = lo, !.Max = hi]
        roundTo == GetRoundToForDelta(GetDelta(r1))
    IN  [r1 EXCEPT !.Min = RoundDown(r1.Min, roundTo),
                   !.Max = RoundUp(r1.Max, roundTo)]

-----------------------------------------------------------------------------
(* getRanges: the three Range objects.  An axis with an explicit Range     *)
(* hands out that very object; otherwise a fresh ContinuousRange is        *)
(* allocated.  The result is the new heap and the three references.        *)

RangeRef(axis, fresh) == IF axis.Range = NilRef THEN fresh ELSE axis.Range

ResolveX(ch, r, acc) ==
    IF Len(ch.XAxis.Ticks) > 0
    THEN [r EXCEPT !.Min = TickBounds(ch.XAxis.Ticks).tickMin,
                   !.Max = TickBounds(ch.XAxis.Ticks).tickMax]
    ELSE IF IsZero(r)
    THEN [r EXCEPT !.Min = acc.minx, !.Max = acc.maxx]
    ELSE r

ResolveY(ch, r, acc) ==
    IF Len(ch.YAxis.Ticks) > 0
    THEN [r EXCEPT !.Min = TickBounds(ch.YAxis.Ticks).tickMin,
                   !.Max = TickBounds(ch.YAxis.Ticks).tickMax]
    ELSE IF IsZero(r)
    THEN AutoRangeY(r, acc.miny, acc.maxy)
    ELSE r

\* the tick loop of the secondary axis ranges over c.YAxis.Ticks
ResolveYAlt(ch, r, acc) ==
    IF Len(ch.YAxisSecondary.Ticks) > 0
    THEN [r EXCEPT !.Min = TickBounds(ch.YAxis.Ticks).tickMin,
                   !.Max = TickBounds(ch.YAxis.Ticks).tickMax]
    ELSE IF acc.seriesMappedToSecondaryAxis /\ IsZero(r)
    THEN AutoRangeY(r, acc.minya, acc.maxya)
    ELSE r

getRanges(ch, h) ==
    LET acc == FoldSeries(Sentinels, ch.Series, 1)
        xref == RangeRef(ch.XAxis, "lx")
        yref == RangeRef(ch.YAxis, "ly")
        yaref == RangeRef(ch.YAxisSecondary, "lya")
        h0 == [h EXCEPT !["lx"] = ContinuousRange,
                        !["ly"] = ContinuousRange,
                        !["lya"] = ContinuousRange]
        h1 == [h0 EXCEPT ![xref] = ResolveX(ch, @, acc)]
        h2 == [h1 EXCEPT ![yref] = ResolveY(ch, @, acc)]
        h3 == [h2 EXCEPT ![yaref] = ResolveYAlt(ch, @, acc)]
    IN  [heap |-> h3, xrange |-> xref, yrange |-> yref, yrangeAlt |-> yaref]

\* the secondary range given the width of the box
setRangeDomainsWidth(h, box, xref, yref, yaref) ==
    LET h1 == [h EXCEPT ![xref].Domain = BoxWidth(box)]
        h2 == [h1 EXCEPT ![yref].Domain = BoxHeight(box)]
    IN  [h2 EXCEPT ![yaref].Domain = BoxWidth(box)]

setRangeDomains(h, box, xref, yref, yaref) ==
    LET h1 == [h EXCEPT ![xref].Domain = BoxWidth(box)]
        h2 == [h1 EXCEPT ![yref].Domain = BoxHeight(box)]
    IN  [h2 EXCEPT ![yaref].Domain = BoxHeight(box)]

InvalidDelta(d) == IsInf(d) \/ IsNaN(d) \/ d = Fin(0)

ErrNone == "none"
ErrNoSeries == "Please provide at least one series"
ErrXRange == "Invalid (infinite or NaN) x-range delta"
ErrYRange == "Invalid (infinite or NaN) y-range delta"
ErrYAltRange == "Invalid (infinite or NaN) y-secondary-range delta"
ErrProvider == "renderer provider error"
ErrFont == "default font error"
ErrSave == "save error"

checkRanges(ch, xrg, yrg, yrag) ==
    IF InvalidDelta(GetDelta(xrg)) THEN ErrXRange
    ELSE IF InvalidDelta(GetDelta(yrg)) THEN ErrYRange
    ELSE IF hasSecondarySeries(ch) /\ InvalidDelta(GetDelta(yrag)) THEN ErrYAltRange
    ELSE ErrNone

-----------------------------------------------------------------------------
(* Layout: ticks and label footprints.                                     *)

NoTicks == [set |-> FALSE, dom |-> 0]

\* Axis.GetTicks: the ticks of an axis, generated against a range's domain
GetTicks(r) == [set |-> TRUE, dom |-> r.Domain]

\* the label footprints a measurement can report, in pixels
Footprints == {12, 30}

\* Axis.Measure: the canvas box extended by the labels along the axis' edge
MeasureX(box, f) == [box EXCEPT !.Bottom = @ + f]
MeasureY(box, f) == [box EXCEPT !.Right = @ + f]
MeasureYAlt(box, f) == [box EXCEPT !.Left = @ - f]
\* AnnotationSeries.Measure: the labels reach above and right of the box
MeasureAnnotation(box, f) == [box EXCEPT !.Top = @ - f, !.Right = @ + f]

getAxesAdjustedCanvasBox(ch, box, f) ==
    LET o0 == box
        o1 == IF ch.XAxis.Show THEN Grow(o0, MeasureX(box, f)) ELSE o0
        o2 == IF ch.YAxis.Show THEN Grow(o1, MeasureY(box, f)) ELSE o1
        o3 == IF ch.YAxisSecondary.Show THEN Grow(o2, MeasureYAlt(box, f)) ELSE o2
    IN  OuterConstrain(box, ChartBox(ch), o3)

RECURSIVE AnnotationOuter(_, _, _, _, _)
AnnotationOuter(ch, box, f, i, outer) ==
    IF i > Len(ch.Series) THEN outer
    ELSE AnnotationOuter(ch, box, f, i + 1,
            IF ch.Series[i].kind = "annotation" /\ Shown(ch.Series[i])
            THEN Grow(outer,
                      IF ch.Series[i].yaxis \in {YAxisPrimary, YAxisSecondary}
                      THEN MeasureAnnotation(box, f) ELSE ZeroBox)
            ELSE outer)

getAnnotationAdjustedCanvasBox(ch, box, f) ==
    OuterConstrain(box, ChartBox(ch), AnnotationOuter(ch, box, f, 1, box))

-----------------------------------------------------------------------------
(* Draw calls on the renderer, recorded in call order.                     *)

Ev(op, idx, what, box, rng, xdom, ydom, tk) ==
    [op |-> op, idx |-> idx, what |-> what, box |-> box, rng |-> rng,
     xdom |-> xdom, ydom |-> ydom, tk |-> tk]

\* a draw call that takes no range
Draw(op, idx, box) == Ev(op, idx, "", box, NilRef, 0, 0, NoTicks)

drawBackground(ch) == <<Draw("background", 0, Box(0, 0, GetWidth(ch), GetHeight(ch)))>>

drawCanvas(ch, box) == <<Draw("canvas", 0, box)>>

drawAxes(ch, box, h, xrange, yrange, yrangeAlt, xticks, yticks, yticksAlt) ==
    (IF ch.XAxis.Show
     THEN <<Ev("axis", 0, "X", box, xrange, h[xrange].Domain, 0, xticks)>>
     ELSE <<>>)
    \o (IF ch.YAxis.Show
        THEN <<Ev("axis", 0, "Y", box, yrange, 0, h[yrange].Domain, yticks)>>
        ELSE <<>>)
    \o (IF ch.YAxisSecondary.Show
        THEN <<Ev("axis", 0, "YA", box, yrangeAlt, 0, h[yrangeAlt].Domain, yticksAlt)>>
        ELSE <<>>)

drawSeries(ch, box, h, xrange, yrange, yrangeAlt, s, seriesIndex) ==
    IF Shown(s)
    THEN IF s.yaxis = YAxisPrimary
         THEN <<Ev("series", seriesIndex, YAxisPrimary, box, yrange,
                   h[xrange].Domain, h[yrange].Domain, NoTicks)>>
         ELSE IF s.yaxis = YAxisSecondary
         THEN <<Ev("series", seriesIndex, YAxisSecondary, box, yrangeAlt,
                   h[xrange].Domain, h[yrangeAlt].Domain, NoTicks)>>
         ELSE <<>>
    ELSE <<>>

RECURSIVE drawAllSeries(_, _, _, _, _, _, _)
drawAllSeries(ch, box, h, xrange, yrange, yrangeAlt, index) ==
    IF index > Len(ch.Series) THEN <<>>
    ELSE drawSeries(ch, box, h, xrange, yrange, yrangeAlt, ch.Series[index], index)
         \o drawAllSeries(ch, box, h, xrange, yrange, yrangeAlt, index + 1)

\* len(c.Title) > 0 && c.TitleStyle.Show
drawTitle(ch) ==
    IF ch.Title THEN <<Draw("title", 0, ZeroBox)>> ELSE <<>>

RECURSIVE drawElements(_, _, _)
drawElements(ch, box, i) ==
    IF i > ch.Elements THEN <<>>
    ELSE <<Draw("element", i, box)>> \o drawElements(ch, box, i + 1)

Save == <<Draw("save", 0, ZeroBox)>>

\* the title drawn before the series
RenderDrawsTitleFirst(ch, box, h, xrange, yrange, yrangeAlt, xticks, yticks, yticksAlt) ==
    drawCanvas(ch, box)
    \o drawAxes(ch, box, h, xrange, yrange, yrangeAlt, xticks, yticks, yticksAlt)
    \o drawTitle(ch)
    \o drawAllSeries(ch, box, h, xrange, yrange, yrangeAlt, 1)
    \o drawElements(ch, box, 1)
    \o Save

\* lines 122-134 of Render: every draw call after the layout, then Save
RenderDraws(ch, box, h, xrange, yrange, yrangeAlt, xticks, yticks, yticksAlt) ==
    drawCanvas(ch, box)
    \o drawAxes(ch, box, h, xrange, yrange, yrangeAlt, xticks, yticks, yticksAlt)
    \o drawAllSeries(ch, box, h, xrange, yrange, yrangeAlt, 1)
    \o drawTitle(ch)
    \o drawElements(ch, box, 1)
    \o Save

\* an error path that falls through to the canvas fill before the dump
RangeErrorDrawsCanvas == <<Draw("canvas", 0, ZeroBox)>> \o Save

\* lines 99-103 of Render: the background is dumped and the error returned
RangeErrorDraws == Save

-----------------------------------------------------------------------------
(* Chart configurations a caller can supply.                               *)

Axes == {"X", "Y", "YA"}

XTicks == <<0, 50, 100>>
YTicks == <<-20, 30>>
YAltTicks == <<10, 40, 200>>

XExplicit == [Min |-> Fin(0), Max |-> Fin(10), Domain |-> 0]
YExplicit == [Min |-> Fin(-50), Max |-> Fin(500), Domain |-> 0]
YAltExplicit == [Min |-> Fin(1), Max |-> Fin(2), Domain |-> 0]

ValueSeries(style, yaxis, pts) ==
    [kind |-> "value", style |-> style, yaxis |-> yaxis, pts |-> pts]
BoundedSeries(style, yaxis, pts) ==
    [kind |-> "bounded", style |-> style, yaxis |-> yaxis, pts |-> pts]
AnnotationSeries(style, yaxis) ==
    [kind |-> "annotation", style |-> style, yaxis |-> yaxis, pts |-> <<>>]

SeriesPool ==
    { ValueSeries("zero", YAxisPrimary, << <<0, 0>>, <<1, 100>> >>),
      ValueSeries("zero", YAxisPrimary, << <<0, 5>>, <<1, 5>> >>),
      ValueSeries("show", YAxisSecondary, << <<0, -7>>, <<2, 250>> >>),
      ValueSeries("hide", YAxisSecondary, << <<4, 3>>, <<9, 8>> >>),
      BoundedSeries("zero", YAxisPrimary, << <<0, -150, 20>>, <<3, 10, 1234>> >>),
      BoundedSeries("show", YAxisSecondary, << <<1, 40, -3>>, <<2, 7, 160>> >>),
      AnnotationSeries("zero", YAxisPrimary),
      AnnotationSeries("hide", YAxisSecondary) }

SeriesLists == UNION { [1..n -> SeriesPool] : n \in 0..MaxSeries }

Chart(series, tk, rg, sh, dim, title, elems, axisType) ==
    [Series |-> series,
     Width |-> dim[1], Height |-> dim[2],
     Title |-> title, Elements |-> elems,
     XAxis |-> [Show |-> "X" \in sh,
                Ticks |-> IF "X" \in tk THEN XTicks ELSE <<>>,
                Range |-> IF "X" \in rg THEN "cx" ELSE NilRef],
     YAxis |-> [Show |-> "Y" \in sh,
                Ticks |-> IF "Y" \in tk THEN YTicks ELSE <<>>,
                Range |-> IF "Y" \in rg THEN "cy" ELSE NilRef],
     YAxisSecondary |-> [Show |-> "YA" \in sh,
                         Ticks |-> IF "YA" \in tk THEN YAltTicks ELSE <<>>,
                         Range |-> IF "YA" \in rg THEN "cya" ELSE NilRef,
                         AxisType |-> axisType]]

CallerHeap(rg) ==
    [r \in Refs |->
        CASE r = "cx" /\ "X" \in rg -> XExplicit
          [] r = "cy" /\ "Y" \in rg -> YExplicit
          [] r = "cya" /\ "YA" \in rg -> YAltExplicit
          [] OTHER -> ContinuousRange]

\* range resolution: explicit ticks on any subset of the axes, explicit Range
\* objects on any subset, under either caller tag of the secondary axis
RangeCharts ==
    { <<Chart(s, tk, rg, {}, <<0, 0>>, FALSE, 0, at), rg>> :
        s \in SeriesLists, tk \in SUBSET Axes, rg \in SUBSET Axes,
        at \in {YAxisPrimary, YAxisSecondary} }

\* layout and drawing: every combination of visible axes, size and decoration
LayoutCharts ==
    { <<Chart(s, {}, {}, sh, dim, t, e, YAxisPrimary), {}>> :
        s \in SeriesLists, sh \in SUBSET Axes,
        dim \in {<<0, 0>>, <<60, 45>>}, t \in BOOLEAN, e \in {0, MaxElements} }

-----------------------------------------------------------------------------
(* Render, step by step.                                                   *)

\* Render has a value receiver: it works on a copy of the chart, and the
\* copy differs from the caller's chart in the secondary axis' tag alone
lc == [c EXCEPT !.YAxisSecondary.AxisType = secondaryAxisType]

\* the caller's Range objects as they were when Render was called
heap0 ==
    CallerHeap({a \in Axes :
        \/ a = "X" /\ c.XAxis.Range # NilRef
        \/ a = "Y" /\ c.YAxis.Range # NilRef
        \/ a = "YA" /\ c.YAxisSecondary.Range # NilRef})

Init ==
    /\ \E cfg \in RangeCharts \cup LayoutCharts :
          /\ c = cfg[1]
          /\ secondaryAxisType = cfg[1].YAxisSecondary.AxisType
          /\ heap = CallerHeap(cfg[2])
    /\ xr = NilRef
    /\ yr = NilRef
    /\ yra = NilRef
    /\ canvasBox = ZeroBox
    /\ xt = NoTicks
    /\ yt = NoTicks
    /\ yta = NoTicks
    /\ events = <<>>
    /\ steps = <<>>
    /\ rpCalled = FALSE
    /\ pc = "start"
    /\ err = ErrNone

\* a guard that lets an empty series list through
NoSeriesNever(ch) == Len(ch.Series) < 0

NoSeries(ch) == Len(ch.Series) = 0

\* lines 71-73: no series, nothing else happens
RenderRejected ==
    /\ pc = "start"
    /\ NoSeries(c)
    /\ err' = ErrNoSeries
    /\ pc' = "done"
    /\ UNCHANGED <<c, secondaryAxisType, heap, xr, yr, yra, canvasBox, xt, yt, yta,
                   events, steps, rpCalled>>

\* lines 74-90: the copy's secondary axis is tagged, the renderer is
\* acquired, the font resolved and the background drawn
RenderBegin ==
    /\ pc = "start"
    /\ ~NoSeries(c)
    /\ secondaryAxisType' = YAxisSecondary
    /\ rpCalled' = TRUE
    /\ \E outcome \in {ErrNone, ErrProvider, ErrFont} :
          IF outcome = ErrNone
          THEN /\ events' = events \o drawBackground(lc)
               /\ pc' = "ranges"
               /\ err' = err
          ELSE /\ events' = events
               /\ pc' = "done"
               /\ err' = outcome
    /\ UNCHANGED <<c, heap, xr, yr, yra, canvasBox, xt, yt, yta, steps>>

AfterAxes(ch) == IF hasAnnotationSeries(ch) THEN "annotation" ELSE "draw"

\* lines 92-103: ranges, default canvas box, domains, validation
ResolveRanges ==
    /\ pc = "ranges"
    /\ \E g \in {getRanges(lc, heap)} :
       LET box == getDefaultCanvasBox(lc)
           h == setRangeDomains(g.heap, box, g.xrange, g.yrange, g.yrangeAlt)
           e == checkRanges(lc, h[g.xrange], h[g.yrange], h[g.yrangeAlt])
       IN  /\ xr' = g.xrange
           /\ yr' = g.yrange
           /\ yra' = g.yrangeAlt
           /\ canvasBox' = box
           /\ heap' = h
           /\ steps' = Append(steps, "setRangeDomains")
           /\ IF e # ErrNone
              THEN /\ events' = events \o RangeErrorDraws
                   /\ err' = e
                   /\ pc' = "done"
              ELSE /\ events' = events
                   /\ err' = err
                   /\ pc' = IF hasAxes(lc) THEN "axes1" ELSE AfterAxes(lc)
    /\ UNCHANGED <<c, secondaryAxisType, xt, yt, yta, rpCalled>>

\* lines 106-108 and 111-113: one pass of ticks, measure/grow/constrain, domains
AxesPass ==
    /\ pc \in {"axes1", "axes2"}
    /\ \E f \in Footprints :
          LET box == getAxesAdjustedCanvasBox(lc, canvasBox, f)
          IN  /\ xt' = IF lc.XAxis.Show THEN GetTicks(heap[xr]) ELSE NoTicks
              /\ yt' = IF lc.YAxis.Show THEN GetTicks(heap[yr]) ELSE NoTicks
              /\ yta' = IF lc.YAxisSecondary.Show THEN GetTicks(heap[yra]) ELSE NoTicks
              /\ canvasBox' = box
              /\ heap' = setRangeDomains(heap, box, xr, yr, yra)
    /\ steps' = steps \o <<"getAxesTicks", "getAxesAdjustedCanvasBox", "setRangeDomains">>
    /\ pc' = IF pc = "axes1" THEN "axes2" ELSE AfterAxes(lc)
    /\ UNCHANGED <<c, secondaryAxisType, xr, yr, yra, events, rpCalled, err>>

\* lines 116-120: the annotation pass
AnnotationPass ==
    /\ pc = "annotation"
    /\ \E f \in Footprints :
          LET box == getAnnotationAdjustedCanvasBox(lc, canvasBox, f)
              h == setRangeDomains(heap, box, xr, yr, yra)
          IN  /\ canvasBox' = box
              /\ heap' = h
              /\ xt' = IF lc.XAxis.Show THEN GetTicks(h[xr]) ELSE NoTicks
              /\ yt' = IF lc.YAxis.Show THEN GetTicks(h[yr]) ELSE NoTicks
              /\ yta' = IF lc.YAxisSecondary.Show THEN GetTicks(h[yra]) ELSE NoTicks
    /\ steps' = steps \o <<"getAnnotationAdjustedCanvasBox", "setRangeDomains", "getAxesTicks">>
    /\ pc' = "draw"
    /\ UNCHANGED <<c, secondaryAxisType, xr, yr, yra, events, rpCalled, err>>

\* lines 122-134: the draw calls and the final Save, whose error is returned
RenderDraw ==
    /\ pc = "draw"
    /\ events' = events \o RenderDraws(lc, canvasBox, heap, xr, yr, yra, xt, yt, yta)
    /\ \E saved \in {ErrNone, ErrSave} : err' = saved
    /\ pc' = "done"
    /\ UNCHANGED <<c, secondaryAxisType, heap, xr, yr, yra, canvasBox, xt, yt, yta,
                   steps, rpCalled>>

Next ==
    \/ RenderRejected
    \/ RenderBegin
    \/ ResolveRanges
    \/ AxesPass
    \/ AnnotationPass
    \/ RenderDraw

Spec == Init /\ [][Next]_vars

-----------------------------------------------------------------------------
(* Vocabulary of the properties.                                           *)

SetMin(S) == CHOOSE m \in S : \A x \in S : m <= x
SetMax(S) == CHOOSE m \in S : \A x \in S : m >= x

Done == pc = "done"
RangesResolved == xr # NilRef

\* the indices of the draw calls of one kind
EventsOf(op) == {i \in 1..Len(events) : events[i].op = op}

\* Y values (both bounds of a bounded value) of the shown series on an axis
TrueY(axis) ==
    UNION { {ch.pts[i][j] : i \in 1..Len(ch.pts), j \in 2..Len(ch.pts[1])} :
            ch \in {c.Series[n] : n \in {m \in 1..Len(c.Series) :
                        /\ Shown(c.Series[m])
                        /\ c.Series[m].yaxis = axis
                        /\ Len(c.Series[m].pts) > 0}} }

\* X values of the shown series
TrueX ==
    UNION { {ch.pts[i][1] : i \in 1..Len(ch.pts)} :
            ch \in {c.Series[n] : n \in {m \in 1..Len(c.Series) :
                        Shown(c.Series[m]) /\ Len(c.Series[m].pts) > 0}} }

TickValues(ticks) == {ticks[i] : i \in 1..Len(ticks)}

-----------------------------------------------------------------------------
\* C1: a chart with zero series is rejected with the configuration error; the
\* renderer provider is never invoked, no draw call is issued, nothing is saved.
C1_NoSeriesNoDrawing ==
    Len(c.Series) = 0 =>
        /\ ~rpCalled
        /\ events = <<>>
        /\ Done => err = ErrNoSeries

C1_Witness == Done /\ Len(c.Series) = 0 /\ err = ErrNoSeries

\* C2: an axis with explicit ticks gets exactly the minimum and maximum of
\* its own tick values as its range, on each of the three axes.
C2_TicksDefineRange ==
    RangesResolved =>
        /\ Len(c.XAxis.Ticks) > 0 =>
              /\ heap[xr].Min = Fin(SetMin(TickValues(c.XAxis.Ticks)))
              /\ heap[xr].Max = Fin(SetMax(TickValues(c.XAxis.Ticks)))
        /\ Len(c.YAxis.Ticks) > 0 =>
              /\ heap[yr].Min = Fin(SetMin(TickValues(c.YAxis.Ticks)))
              /\ heap[yr].Max = Fin(SetMax(TickValues(c.YAxis.Ticks)))
        /\ Len(c.YAxisSecondary.Ticks) > 0 =>
              /\ heap[yra].Min = Fin(SetMin(TickValues(c.YAxisSecondary.Ticks)))
              /\ heap[yra].Max = Fin(SetMax(TickValues(c.YAxisSecondary.Ticks)))

\* C3: when checkRanges reports an invalid range, Render returns that error
\* having issued the background fill and one Save, and no other draw call.
C3_RangeErrorBackgroundOnly ==
    RangesResolved =>
        LET e == checkRanges(lc, heap[xr], heap[yr], heap[yra])
        IN  e # ErrNone =>
              /\ Done
              /\ err = e
              /\ Len(events) = 2
              /\ events[1].op = "background"
              /\ events[2].op = "save"

C3_Witness ==
    /\ Done
    /\ err = ErrYAltRange
    /\ Len(events) = 2
    /\ checkRanges(lc, heap[xr], heap[yr], heap[yra]) = ErrYAltRange

\* the place of a draw call in the order of a render
Phase(op) == CASE op = "background" -> 1
               [] op = "canvas" -> 2
               [] op = "axis" -> 3
               [] op = "series" -> 4
               [] op = "title" -> 5
               [] op = "element" -> 6
               [] OTHER -> 7

AxisPlace(what) == CASE what = "X" -> 1 [] what = "Y" -> 2 [] OTHER -> 3

VisibleAxes ==
    {a \in Axes : \/ a = "X" /\ c.XAxis.Show
                  \/ a = "Y" /\ c.YAxis.Show
                  \/ a = "YA" /\ c.YAxisSecondary.Show}

ShownSeries == {i \in 1..Len(c.Series) : Shown(c.Series[i])}

Successful == Done /\ err = ErrNone /\ Len(c.Series) > 0

C5_AutoRangeEnclosesData ==
    RangesResolved =>
        /\ (Len(c.YAxis.Ticks) = 0 /\ c.YAxis.Range = NilRef
                /\ TrueY(YAxisPrimary) # {}) =>
              /\ Le(heap[yr].Min, Fin(SetMin(TrueY(YAxisPrimary))))
              /\ Le(Fin(SetMax(TrueY(YAxisPrimary))), heap[yr].Max)
        /\ (Len(c.YAxisSecondary.Ticks) = 0 /\ c.YAxisSecondary.Range = NilRef
                /\ TrueY(YAxisSecondary) # {}) =>
              /\ Le(heap[yra].Min, Fin(SetMin(TrueY(YAxisSecondary))))
              /\ Le(Fin(SetMax(TrueY(YAxisSecondary))), heap[yra].Max)
        /\ (Len(c.XAxis.Ticks) = 0 /\ c.XAxis.Range = NilRef /\ TrueX # {}) =>
              /\ heap[xr].Min = Fin(SetMin(TrueX))
              /\ heap[xr].Max = Fin(SetMax(TrueX))

\* a bounded series on each Y axis, a range that rounding has widened
C5_Witness ==
    /\ RangesResolved
    /\ Len(c.YAxis.Ticks) = 0 /\ c.YAxis.Range = NilRef
    /\ Len(c.YAxisSecondary.Ticks) = 0 /\ c.YAxisSecondary.Range = NilRef
    /\ Len(c.XAxis.Ticks) = 0 /\ c.XAxis.Range = NilRef
    /\ \E i, j \in 1..Len(c.Series) :
          /\ c.Series[i].kind = "bounded" /\ c.Series[i].yaxis = YAxisPrimary
          /\ c.Series[j].kind = "bounded" /\ c.Series[j].yaxis = YAxisSecondary
    /\ Lt(heap[yr].Min, Fin(SetMin(TrueY(YAxisPrimary))))
    /\ Lt(heap[yra].Min, Fin(SetMin(TrueY(YAxisSecondary))))
    /\ heap[xr].Max = Fin(SetMax(TrueX))

\* C6: a chart whose only series is shown, on the secondary axis, with
\* varying X and Y, and no explicit ticks or ranges: the secondary range has
\* a finite non-zero delta and Render does not fail on the primary Y range.
OnlySecondarySeries ==
    /\ Len(c.Series) = 1
    /\ Shown(c.Series[1])
    /\ c.Series[1].yaxis = YAxisSecondary
    /\ Cardinality(TrueY(YAxisSecondary)) > 1
    /\ Cardinality(TrueX) > 1
    /\ \A a \in {c.XAxis, c.YAxis, c.YAxisSecondary} :
          Len(a.Ticks) = 0 /\ a.Range = NilRef

C6_SecondaryOnlyRenders ==
    (OnlySecondarySeries /\ RangesResolved /\ Done) =>
        /\ ~InvalidDelta(GetDelta(heap[yra]))
        /\ err # ErrYRange

\* C7: Render leaves the caller's configuration as it was: the caller's
\* explicit Range objects keep their minimum, maximum and domain, and the
\* secondary axis keeps the tag the caller gave it.
C7_CallerConfigUnchanged ==
    [][c' = c /\ \A r \in CallerRefs : heap'[r] = heap[r]]_vars

\* C8: every canvas box handed to drawCanvas, drawAxes and drawSeries has
\* positive width and positive height (a collapsed box is a layout error).
C8_DrawnBoxPositive ==
    \A i \in EventsOf("canvas") \cup EventsOf("axis") \cup EventsOf("series") :
        BoxWidth(events[i].box) > 0 /\ BoxHeight(events[i].box) > 0

\* no shown series on the secondary axis, no ticks and no Range on it
SecondaryAbsent ==
    /\ \A i \in ShownSeries : c.Series[i].yaxis # YAxisSecondary
    /\ Len(c.YAxisSecondary.Ticks) = 0
    /\ c.YAxisSecondary.Range = NilRef

\* an invalid secondary delta behind valid X and primary Y deltas
SecondaryInvalidAlone ==
    /\ ~InvalidDelta(GetDelta(heap[xr]))
    /\ ~InvalidDelta(GetDelta(heap[yr]))
    /\ InvalidDelta(GetDelta(heap[yra]))

\* C9: with no shown series on the secondary axis and neither ticks nor a
\* Range on it, the secondary range stays min = max = 0 and Render never
\* returns the y-secondary-range error, hidden secondary series or not;
\* conversely the secondary delta is validated whenever a series targets
\* the secondary axis.
C9_SecondaryAbsentNotChecked ==
    RangesResolved =>
        /\ SecondaryAbsent => (IsZero(heap[yra]) /\ err # ErrYAltRange)
        /\ ((\E i \in 1..Len(c.Series) : c.Series[i].yaxis = YAxisSecondary)
                /\ SecondaryInvalidAlone) => err = ErrYAltRange

\* C10: a Render that passes validation runs the layout steps on a fixed
\* schedule: domains once; two tick/measure/domain passes if an axis is
\* visible; one annotation pass, domains and ticks if a visible annotation
\* series exists.  Then the X domain is the width and both Y domains the
\* height of the final canvas box, and the draw calls use these.
AxesCycle == <<"getAxesTicks", "getAxesAdjustedCanvasBox", "setRangeDomains">>

LayoutDone == pc = "draw" \/ (Done /\ err \in {ErrNone, ErrSave} /\ RangesResolved)

C10_LayoutSchedule ==
    LayoutDone =>
        /\ steps = <<"setRangeDomains">>
                   \o (IF VisibleAxes # {} THEN AxesCycle \o AxesCycle ELSE <<>>)
                   \o (IF \E i \in ShownSeries : c.Series[i].kind = "annotation"
                       THEN <<"getAnnotationAdjustedCanvasBox", "setRangeDomains",
                              "getAxesTicks">>
                       ELSE <<>>)
        /\ heap[xr].Domain = BoxWidth(canvasBox)
        /\ heap[yr].Domain = BoxHeight(canvasBox)
        /\ heap[yra].Domain = BoxHeight(canvasBox)
        /\ \A i \in EventsOf("canvas") \cup EventsOf("axis") \cup EventsOf("series")
                    \cup EventsOf("element") :
              events[i].box = canvasBox
        /\ \A i \in EventsOf("series") :
              /\ events[i].xdom = BoxWidth(canvasBox)
              /\ events[i].ydom = BoxHeight(canvasBox)
        /\ \A i \in EventsOf("axis") :
              /\ events[i].what = "X" => events[i].xdom = BoxWidth(canvasBox)
              /\ events[i].what # "X" => events[i].ydom = BoxHeight(canvasBox)
              /\ events[i].tk.set
              /\ (\E n \in ShownSeries : c.Series[n].kind = "annotation") =>
                    events[i].tk.dom = heap[events[i].rng].Domain

C10_Witness ==
    /\ Done
    /\ err = ErrNone
    /\ Len(steps) = 10
    /\ canvasBox # getDefaultCanvasBox(c)
    /\ BoxWidth(canvasBox) # BoxHeight(canvasBox)
    /\ EventsOf("series") # {}
    /\ Cardinality(EventsOf("axis")) = 3

====
